---- MODULE Spec2Model ----
(***************************************************************************)
(* Model of typeorm-event-functions (functions.ts, the variant that takes  *)
(* a connectionName): generic CRUD helpers over a TypeORM repository with  *)
(* an optional event callback (sendEvent) per affected record.             *)
(*                                                                         *)
(* The relational store is an external collaborator.  It is modelled at    *)
(* its boundary: one table per connection, a row being an id and a name,   *)
(* and each repository / query-builder call being one atomic step.  A      *)
(* mutating store call may be rejected by the store (StoreError); reads    *)
(* are taken to succeed, except a select whose where names a parameter     *)
(* that was given no value.                                                *)
(* Every `await` of a store call or of sendEvent is a suspension point and *)
(* therefore a separate action.                                            *)
(***************************************************************************)
EXTENDS Integers, Sequences, FiniteSets, TLC

\* ------------------------------------------------------------------ bounds
MaxIds == 2
MaxVal == 2
MaxBatch == 2
MaxVersion == 1

Ids == 1..MaxIds
Vals == 1..MaxVal
\* A table cell holding NoRow means "no row with that id".
NoRow == 0
\* In a condition or a patch, Unset means "the field is not mentioned".
Unset == 0

Procs == {1, 2}
Conns == {"default", "other"}

\* ---------------------------------------------------------------- values
Row(i, v) == [id |-> i, name |-> v]
Rows == [id : Ids, name : Vals]

\* Raw(row): the raw entity as the bulk query-builder paths hand it out.
Raw(r) == [shape |-> "raw", id |-> r.id, name |-> r.name]

\* createFromModel: the caller's projection.  "full" keeps both fields,
\* "idOnly" drops the name, "strict" keeps both but throws on name = 1.
Projections == {"full", "idOnly", "strict"}
ProjectThrows(f, r) == f = "strict" /\ r.name = 1
Project(f, r) ==
    [shape |-> f, id |-> r.id, name |-> IF f = "idOnly" THEN Unset ELSE r.name]

\* Optional<T> of optional-typescript: a value or nothing.
NoVal == [shape |-> "none", id |-> 0, name |-> 0]
None == [hasValue |-> FALSE, val |-> NoVal, list |-> << >>]
Some(v) == [hasValue |-> TRUE, val |-> v, list |-> << >>]
SomeList(l) == [hasValue |-> TRUE, val |-> NoVal, list |-> l]

\* FindConditions / criteria: a field-match object, all fields AND-ed.
Cond(i, v) == [id |-> i, name |-> v]
NoCond == Cond(Unset, Unset)
Matches(r, c) ==
    /\ (c.id # Unset => r.id = c.id)
    /\ (c.name # Unset => r.name = c.name)

\* A where clause of the query-builder paths is an object literal (a Cond) or
\* the expression "name = :name", written Cond(Unset, Named), whose value comes
\* from the `parameters` object given with it.
Named == MaxVal + 1
NamedWhere == Cond(Unset, Named)
\* .where(where, parameters) as the store resolves it: the condition, and
\* whether every named parameter has a value.
IsBound(where, parameters) == where.name # Named \/ parameters # Unset
Resolve(where, parameters) ==
    IF where.name = Named THEN Cond(where.id, parameters) ELSE where

\* ------------------------------------------------------------ the store
Tables == [Ids -> Vals \cup {NoRow}]
EmptyTable == [i \in Ids |-> NoRow]

Matching(tbl, c) == {i \in Ids : tbl[i] # NoRow /\ Matches(Row(i, tbl[i]), c)}

RECURSIVE SortedIds(_)
SortedIds(S) ==
    IF S = {} THEN << >>
    ELSE LET m == CHOOSE x \in S : \A y \in S : x <= y
         IN  <<m>> \o SortedIds(S \ {m})

\* Repository.findOne(id)
RepoFindOne(tbl, i) == IF tbl[i] = NoRow THEN << >> ELSE <<Row(i, tbl[i])>>

\* SelectQueryBuilder.getMany(): the matching rows, in primary-key order.
GetMany(tbl, c) ==
    LET ids == SortedIds(Matching(tbl, c))
    IN  [k \in 1..Len(ids) |-> Row(ids[k], tbl[ids[k]])]

\* Repository.update(criteria, partial) / UpdateQueryBuilder.execute():
\* every matching row takes the fields of the patch.  Moving a row onto an
\* id that another row keeps, or two rows onto one id, violates the primary
\* key and the store rejects the statement.
Patched(r, patch) ==
    Row(IF patch.id = Unset THEN r.id ELSE patch.id,
        IF patch.name = Unset THEN r.name ELSE patch.name)
UpdateViolates(tbl, c, patch) ==
    LET M == Matching(tbl, c)
    IN  /\ patch.id # Unset
        /\ \/ Cardinality(M) > 1
           \/ /\ M # {}
              /\ patch.id \notin M
              /\ tbl[patch.id] # NoRow
StoreUpdate(tbl, c, patch) ==
    LET M == Matching(tbl, c)
        New(i) == Patched(Row(i, tbl[i]), patch)
    IN  [j \in Ids |->
            IF \E i \in M : New(i).id = j
               THEN (New(CHOOSE i \in M : New(i).id = j)).name
            ELSE IF j \in M THEN NoRow
            ELSE tbl[j]]

\* Repository.delete(criteria) / DeleteQueryBuilder.execute()
StoreDelete(tbl, c) ==
    [j \in Ids |-> IF j \in Matching(tbl, c) THEN NoRow ELSE tbl[j]]

\* Repository.save(entities): insert, or overwrite the row with the same id;
\* of two entities with one id the later one wins.
RECURSIVE StoreSave(_, _)
StoreSave(tbl, rows) ==
    IF rows = << >> THEN tbl
    ELSE StoreSave([tbl EXCEPT ![Head(rows).id] = Head(rows).name], Tail(rows))

\* ---------------------------------------------------------- query builders
\* lockVersion?: number | Date.  kind "none" is the omitted argument.
NoVersion == [kind |-> "none", n |-> 0]
Versions ==
    {NoVersion} \cup [kind : {"number"}, n : 0..MaxVersion] \cup [kind : {"date"}, n : {0}]
\* JavaScript truthiness of lockVersion: undefined and the number 0 are falsy,
\* every Date object is truthy.
Truthy(v) == v.kind = "date" \/ (v.kind = "number" /\ v.n # 0)

\* lockMode?: "none" is the omitted argument.
LockModes == {"none", "optimistic", "pessimistic_read", "pessimistic_write"}

\* getRepositoryAsync: connectionName = "default" when omitted.
getRepositoryAsync(connectionName) ==
    IF connectionName = "undefined" THEN "default" ELSE connectionName

QB(c, l, v) == [conn |-> c, lock |-> l, version |-> v, where |-> NoCond, params |-> Unset]
\* queryBuilder.where(where, parameters)
Where(qb, where, parameters) == [qb EXCEPT !.where = where, !.params = parameters]
NoQB == QB("default", "none", NoVersion)
Built(qb) == [ok |-> TRUE, qb |-> qb, err |-> "none"]
Thrown(e) == [ok |-> FALSE, qb |-> NoQB, err |-> e]

createQueryBuilderAsync(lockMode, lockVersion, connectionName) ==
    LET repo == getRepositoryAsync(connectionName)
    IN  IF lockMode = "optimistic"
           THEN IF ~Truthy(lockVersion)
                   THEN Thrown("Lock version not specified")
                   ELSE Built(QB(repo, lockMode, lockVersion))
        ELSE IF lockMode \in {"pessimistic_read", "pessimistic_write"}
           THEN Built(QB(repo, lockMode, NoVersion))
        ELSE Built(QB(repo, "none", NoVersion))

simplifiedQueryBuilderAsync(lockMode, lockVersion, connectionName) ==
    IF lockMode # "none"
       THEN IF lockMode = "optimistic"
               THEN IF Truthy(lockVersion)
                       THEN createQueryBuilderAsync(lockMode, lockVersion, connectionName)
                       ELSE createQueryBuilderAsync("none", NoVersion, "undefined")
               ELSE createQueryBuilderAsync(lockMode, NoVersion, "undefined")
       ELSE createQueryBuilderAsync("none", NoVersion, "undefined")

\* Mutant: the lock mode is not handed on.
deleteQueryBuilderUnlocked(lockMode, lockVersion) ==
    simplifiedQueryBuilderAsync("none", NoVersion, "undefined")

\* deleteQueryBuilderAsync takes no connectionName.
deleteQueryBuilderAsync(lockMode, lockVersion) ==
    simplifiedQueryBuilderAsync(lockMode, lockVersion, "undefined")

selectQueryBuilderAsync(where, parameters, lockMode, lockVersion, connectionName) ==
    LET b == simplifiedQueryBuilderAsync(lockMode, lockVersion, connectionName)
    IN  IF b.ok THEN Built(Where(b.qb, where, parameters)) ELSE b

\* getMany() of a select builder.  A named parameter left without a value
\* reaches the driver as the text ":name": depending on the driver the
\* statement is rejected, or the parameter reads as NULL and no row matches.
GetManyOutcomes(tbl, qb) ==
    IF IsBound(qb.where, qb.params)
       THEN {[ok |-> TRUE, rows |-> GetMany(tbl, Resolve(qb.where, qb.params))]}
       ELSE {[ok |-> FALSE, rows |-> << >>], [ok |-> TRUE, rows |-> << >>]}

\* ------------------------------------------------------------------ reads
RECURSIVE ProjectAll(_, _)
ProjectAll(f, rows) ==
    IF rows = << >> THEN << >>
    ELSE <<Project(f, Head(rows))>> \o ProjectAll(f, Tail(rows))

Read(o) == [throws |-> FALSE, opt |-> o]
ReadThrows == [throws |-> TRUE, opt |-> None]

\* Mutant: the found entity is wrapped without .map(createFromModel).
MapOptionalUnmapped(found, f) ==
    IF found = << >> THEN Read(None) ELSE Read(Some(Raw(found[1])))

\* Mutant: createFromModel is called on whatever the store answered, and
\* fails on the missing entity.
MapOptionalEager(found, f) ==
    IF found = << >> \/ ProjectThrows(f, found[1]) THEN ReadThrows
    ELSE Read(Some(Project(f, found[1])))

\* Some(x).map(createFromModel): nothing stays nothing, the projection is
\* applied to a value only, and an error it throws propagates.
MapOptional(found, f) ==
    IF found = << >> THEN Read(None)
    ELSE IF ProjectThrows(f, found[1]) THEN ReadThrows
    ELSE Read(Some(Project(f, found[1])))

\* condition?: string | number | Date | FindConditions<A>.  A scalar is an
\* identity; the omitted condition is Fields(NoCond).
Scalar(i) == [kind |-> "scalar", id |-> i, name |-> Unset]
Fields(c) == [kind |-> "fields", id |-> c.id, name |-> c.name]
NoCondition == Fields(NoCond)

\* orderByCondition?: "none" is the omitted argument, and the store then
\* answers in primary-key order.
Orders == {"none", "idDesc"}
Reverse(rows) == [k \in 1..Len(rows) |-> rows[Len(rows) + 1 - k]]
OrderBy(rows, orderByCondition) ==
    IF orderByCondition = "idDesc" THEN Reverse(rows) ELSE rows

\* getOne(): the first row of the result, if any.
GetOne(rows) == IF rows = << >> THEN << >> ELSE <<rows[1]>>

\* findOneAsync: a scalar condition goes to Repository.findOne(id); anything
\* else to a query builder with orderBy, where (when a condition is given)
\* and getOne.
findOneAsync(tables, f, condition, orderByCondition, connectionName) ==
    IF condition.kind = "scalar"
       THEN MapOptional(RepoFindOne(tables[getRepositoryAsync(connectionName)],
                                    condition.id), f)
       ELSE LET qb == createQueryBuilderAsync("none", NoVersion, connectionName).qb
            IN  MapOptional(GetOne(OrderBy(GetMany(tables[qb.conn], condition),
                                           orderByCondition)), f)

getByIdAsync(tables, i, f, connectionName) ==
    findOneAsync(tables, f, Scalar(i), "none", connectionName)

\* Mutant: one match is not enough.
anyAsyncMoreThanOne(tables, condition, connectionName) ==
    Cardinality(Matching(tables[getRepositoryAsync(connectionName)], condition)) > 1

\* anyAsync: getCount() > 0 of a builder with where (when a condition is given).
anyAsync(tables, condition, connectionName) ==
    LET qb == createQueryBuilderAsync("none", NoVersion, connectionName).qb
    IN  Cardinality(Matching(tables[qb.conn], condition)) > 0

\* takeAmount?, skipAmount?: a number or omitted.
NoAmount == [given |-> FALSE, n |-> 0]
Amount(n) == [given |-> TRUE, n |-> n]
\* `if (takeAmount)`: the omitted amount and the number 0 are falsy.
TruthyAmount(a) == a.given /\ a.n # 0
Min(a, b) == IF a <= b THEN a ELSE b
Skip(rows, k) == SubSeq(rows, Min(k, Len(rows)) + 1, Len(rows))
Take(rows, n) == SubSeq(rows, 1, Min(n, Len(rows)))

\* findAsync: orderBy, where(findConditions), take and skip when truthy,
\* getMany, then createFromModel on every row.
findAsync(tables, f, findConditions, orderByCondition, takeAmount, skipAmount, connectionName) ==
    LET qb == createQueryBuilderAsync("none", NoVersion, connectionName).qb
        all == OrderBy(GetMany(tables[qb.conn], findConditions), orderByCondition)
        skipped == IF TruthyAmount(skipAmount) THEN Skip(all, skipAmount.n) ELSE all
        page == IF TruthyAmount(takeAmount) THEN Take(skipped, takeAmount.n) ELSE skipped
    IN  IF \E k \in 1..Len(page) : ProjectThrows(f, page[k]) THEN ReadThrows
        ELSE Read(SomeList(ProjectAll(f, page)))

\* retrievalFunction: the caller's closure.  "byId" is the closure the ById
\* wrappers build; "list" wraps the matching rows in a present Optional even
\* when there are none; "listOrNone" answers nothing when there are none.
ById(i, f, connectionName) ==
    [kind |-> "byId", id |-> i, cond |-> NoCond, proj |-> f, conn |-> connectionName]
ListOf(k, c, f, connectionName) ==
    [kind |-> k, id |-> 0, cond |-> c, proj |-> f, conn |-> connectionName]
NoRetrieval == ById(0, "full", "undefined")

retrievalFunction(tables, r) ==
    IF r.kind = "byId" THEN getByIdAsync(tables, r.id, r.proj, r.conn)
    ELSE LET rows == GetMany(tables[getRepositoryAsync(r.conn)], r.cond)
         IN  IF \E k \in 1..Len(rows) : ProjectThrows(r.proj, rows[k]) THEN ReadThrows
             ELSE IF r.kind = "listOrNone" /\ rows = << >> THEN Read(None)
             ELSE Read(SomeList(ProjectAll(r.proj, rows)))

\* ------------------------------------------------------------------ state
VARIABLES
    db,          \* the store: connection -> table
    registered,  \* the connections the application has set up
    pc,          \* per caller: where its current call stands
    args,        \* per caller: the arguments of its current call
    loc,         \* per caller: the locals of its current call
    trace,       \* per caller: store calls and sendEvent invocations, in order
    notes,       \* per caller: the sendEvent calls started and their outcome
    ret          \* per caller: what the call returned or raised

vars == <<db, registered, pc, args, loc, trace, notes, ret>>

\* connectionName values a caller can pass.
ConnChoices == {"undefined"} \cup (registered \ {"default"})

Criteria == {Cond(i, Unset) : i \in Ids} \cup {Cond(Unset, v) : v \in Vals}
Wheres == Criteria \cup {NoCond}
\* where / parameters pairs of the query-builder paths: a named parameter
\* comes with its value.
Clause(w, ps) == [where |-> w, params |-> ps]
Clauses == {Clause(w, Unset) : w \in Wheres} \cup {Clause(NamedWhere, v) : v \in Vals}
\* elementToUpdate / updateValues: at least one field.
Patches == [id : {Unset} \cup Ids, name : {Unset} \cup Vals] \ {NoCond}
Batches == UNION {[1..n -> Rows] : n \in 0..MaxBatch}
\* Conditions of the read operations, and take / skip amounts.
FieldConditions == {Fields(c) : c \in Wheres}
Conditions == {Scalar(i) : i \in Ids} \cup FieldConditions
Amounts == {NoAmount} \cup {Amount(n) : n \in 0..MaxIds}

NoArgs ==
    [op |-> "none", entry |-> "none", conn |-> "undefined", criteria |-> NoCond,
     patch |-> NoCond, retr |-> NoRetrieval, proj |-> "full", notify |-> FALSE,
     rows |-> << >>, lock |-> "none", version |-> NoVersion, params |-> Unset,
     cond |-> NoCondition, alt |-> NoCondition, order |-> "none",
     take |-> NoAmount, skip |-> NoAmount]
\* first: what the retrieval (or the projection of the saved entities) gave;
\* sel: the rows a bulk path selected; qb: the builder a bulk path executes;
\* before / applied: the table the mutation found and the table it left.
NoLoc ==
    [first |-> None, sel |-> << >>, qb |-> NoQB,
     before |-> EmptyTable, applied |-> EmptyTable]

\* A store call (with the connection it went to, the lock mode its builder
\* carried, whether the store accepted it and what it answered) or a
\* sendEvent invocation (with its argument).
Event(e, c, l, ok, o) ==
    [ev |-> e, conn |-> c, lock |-> l, ok |-> ok, opt |-> o,
     where |-> NoCond, params |-> Unset]
StoreEv(e, c, ok) == Event(e, c, "none", ok, None)
ReadEv(c, r) == Event("retrieve", c, "none", ~r.throws, r.opt)
BuilderEv(e, qb, ok) ==
    [Event(e, qb.conn, qb.lock, ok, None) EXCEPT !.where = qb.where, !.params = qb.params]
NotifyEv(v) == Event("notify", "none", "none", TRUE, Some(v))

Running == [st |-> "running", opt |-> None, qb |-> NoQB, err |-> "none", flag |-> FALSE]
Returned(o) == [Running EXCEPT !.st = "returned", !.opt = o]
ReturnedQB(qb) == [Running EXCEPT !.st = "returned", !.qb = qb]
ReturnedFlag(b) == [Running EXCEPT !.st = "returned", !.flag = b]
Raised(e) == [Running EXCEPT !.st = "raised", !.err = e]

\* A started sendEvent call: its argument, its state and, once settled, its
\* rank among the settled calls of the same operation.
Note(v) == [val |-> v, st |-> "pending", at |-> 0]
RECURSIVE NotesFor(_)
NotesFor(vals) ==
    IF vals = << >> THEN << >> ELSE <<Note(Head(vals))>> \o NotesFor(Tail(vals))
RECURSIVE NotifyEvs(_)
NotifyEvs(vals) ==
    IF vals = << >> THEN << >> ELSE <<NotifyEv(Head(vals))>> \o NotifyEvs(Tail(vals))
RECURSIVE RawAll(_)
RawAll(rows) ==
    IF rows = << >> THEN << >> ELSE <<Raw(Head(rows))>> \o RawAll(Tail(rows))

TypeOK ==
    /\ db \in [Conns -> Tables]
    /\ registered \subseteq Conns
    /\ \A p \in Procs : ret[p].st \in {"running", "returned", "raised"}
    /\ \A p \in Procs : (pc[p] = "done") = (ret[p].st = "returned")
    /\ \A p \in Procs : (pc[p] = "failed") = (ret[p].st = "raised")

Init ==
    /\ registered = {"default"}
    /\ db \in [Conns -> Tables]
    /\ \A c \in Conns \ registered : db[c] = EmptyTable
    /\ pc = [p \in Procs |-> "idle"]
    /\ args = [p \in Procs |-> NoArgs]
    /\ loc = [p \in Procs |-> NoLoc]
    /\ trace = [p \in Procs |-> << >>]
    /\ notes = [p \in Procs |-> << >>]
    /\ ret = [p \in Procs |-> Running]

\* A call begins.  Calls share nothing but the store, and Init draws the
\* store from every content, so each caller is followed through one call.
Begin(p, a, label) ==
    /\ args' = [args EXCEPT ![p] = a]
    /\ pc' = [pc EXCEPT ![p] = label]
    /\ UNCHANGED <<db, registered, loc, trace, notes, ret>>

Return(p, o) ==
    /\ pc' = [pc EXCEPT ![p] = "done"]
    /\ ret' = [ret EXCEPT ![p] = Returned(o)]
Throw(p, e) ==
    /\ pc' = [pc EXCEPT ![p] = "failed"]
    /\ ret' = [ret EXCEPT ![p] = Raised(e)]
Goto(p, label) ==
    /\ pc' = [pc EXCEPT ![p] = label]
    /\ UNCHANGED ret
Log(p, evs) == trace' = [trace EXCEPT ![p] = @ \o evs]
\* The store executes a mutation on connection c.
Mutate(p, c, tbl) ==
    /\ db' = [db EXCEPT ![c] = tbl]
    /\ loc' = [loc EXCEPT ![p].before = db[c], ![p].applied = tbl]

\* -------------------------------------------------------------- updateAsync
StartUpdateAsync(p) ==
    /\ pc[p] = "idle"
    /\ \E c \in Criteria, e \in Patches, i \in Ids, f \in Projections,
          n \in BOOLEAN, cn \in ConnChoices :
        Begin(p, [NoArgs EXCEPT !.op = "updateAsync", !.entry = "updateAsync",
                                !.criteria = c, !.patch = e,
                                !.retr = ById(i, f, cn), !.proj = f,
                                !.notify = n, !.conn = cn], "upd_retrieve")

\* updateByIdAsync: criteria {id}, retrieval getByIdAsync on the same connection.
StartUpdateByIdAsync(p) ==
    /\ pc[p] = "idle"
    /\ \E i \in Ids, e \in Patches, f \in Projections, n \in BOOLEAN, cn \in ConnChoices :
        Begin(p, [NoArgs EXCEPT !.op = "updateAsync", !.entry = "updateByIdAsync",
                                !.criteria = Cond(i, Unset), !.patch = e,
                                !.retr = ById(i, f, cn), !.proj = f,
                                !.notify = n, !.conn = cn], "upd_retrieve")

\* Mutant: the hasValue guard is missing.
UpdateRefusedNever(first) == FALSE

\* if (!updatedEntryOrNone.hasValue) throw new Error(...)
UpdateRefused(first) == ~first.hasValue

\* const updatedEntryOrNone = await retrievalFunction(); the hasValue guard.
UpdRetrieve(p) ==
    /\ pc[p] = "upd_retrieve"
    /\ LET r == retrievalFunction(db, args[p].retr)
       IN  /\ Log(p, <<ReadEv(getRepositoryAsync(args[p].retr.conn), r)>>)
           /\ IF r.throws THEN Throw(p, "projection") /\ UNCHANGED loc
              ELSE IF UpdateRefused(r.opt)
                 THEN Throw(p, "Not possible to update the given entity") /\ UNCHANGED loc
              ELSE Goto(p, "upd_update") /\ loc' = [loc EXCEPT ![p].first = r.opt]
    /\ UNCHANGED <<db, registered, args, notes>>

\* Mutant: sendEvent gets the record as the update left it.
UpdateEventArgPost(first, after, retr) == retrievalFunction(after, retr).opt.val

\* sendEvent(updatedEntryOrNone.valueOrUndefined()): the argument is the value
\* of the first retrieval; `after` is the store as the update left it.
UpdateEventArg(first, after, retr) == first.val

\* await repo.update(criteria, elementToUpdate); then sendEvent is invoked, or
\* the second retrieval is issued.
UpdUpdate(p) ==
    /\ pc[p] = "upd_update"
    /\ LET repo == getRepositoryAsync(args[p].conn)
       IN  \E storeOk \in BOOLEAN :
             IF ~storeOk \/ UpdateViolates(db[repo], args[p].criteria, args[p].patch)
                THEN /\ Log(p, <<StoreEv("update", repo, FALSE)>>)
                     /\ Throw(p, "StoreError")
                     /\ UNCHANGED <<db, notes, loc>>
                ELSE /\ Mutate(p, repo, StoreUpdate(db[repo], args[p].criteria, args[p].patch))
                     /\ IF args[p].notify
                           THEN LET v == UpdateEventArg(loc[p].first, db', args[p].retr)
                                IN  /\ Log(p, <<StoreEv("update", repo, TRUE), NotifyEv(v)>>)
                                    /\ notes' = [notes EXCEPT ![p] = <<Note(v)>>]
                                    /\ Goto(p, "upd_await")
                           ELSE /\ Log(p, <<StoreEv("update", repo, TRUE)>>)
                                /\ UNCHANGED notes
                                /\ Goto(p, "upd_retrieve2")
    /\ UNCHANGED <<registered, args>>

\* Mutant: the first retrieval is returned again.
UpdateResultStale(first, second) == first

\* return retrievalFunction(): the value of the second call is the result.
UpdateResult(first, second) == second

UpdRetrieve2(p) ==
    /\ pc[p] = "upd_retrieve2"
    /\ LET r == retrievalFunction(db, args[p].retr)
       IN  /\ Log(p, <<ReadEv(getRepositoryAsync(args[p].retr.conn), r)>>)
           /\ IF r.throws THEN Throw(p, "projection")
              ELSE Return(p, UpdateResult(loc[p].first, r.opt))
    /\ UNCHANGED <<db, registered, args, loc, notes>>

\* ----------------------------------------------------------- deleteOneAsync
StartDeleteOneAsync(p) ==
    /\ pc[p] = "idle"
    /\ \E c \in Criteria, i \in Ids, f \in Projections, n \in BOOLEAN, cn \in ConnChoices :
        Begin(p, [NoArgs EXCEPT !.op = "deleteOneAsync", !.entry = "deleteOneAsync",
                                !.criteria = c, !.retr = ById(i, f, cn), !.proj = f,
                                !.notify = n, !.conn = cn], "del_retrieve")

\* deleteByIdAsync: criteria {id}; its retrieval closure calls getByIdAsync
\* without a connectionName.
StartDeleteByIdAsync(p) ==
    /\ pc[p] = "idle"
    /\ \E i \in Ids, f \in Projections, n \in BOOLEAN, cn \in ConnChoices :
        Begin(p, [NoArgs EXCEPT !.op = "deleteOneAsync", !.entry = "deleteByIdAsync",
                                !.criteria = Cond(i, Unset),
                                !.retr = ById(i, f, "undefined"), !.proj = f,
                                !.notify = n, !.conn = cn], "del_retrieve")

\* Mutant: the delete is issued whatever the retrieval gave.
DeleteOneGuardAlways(toBeDeletedOrNone) == TRUE

\* if (toBeDeletedOrNone.hasValue) { await repo.delete(criteria); ... }
DeleteOneGuard(toBeDeletedOrNone) == toBeDeletedOrNone.hasValue

\* const toBeDeletedOrNone = await retrievalFunction(); the hasValue guard.
DelRetrieve(p) ==
    /\ pc[p] = "del_retrieve"
    /\ LET r == retrievalFunction(db, args[p].retr)
       IN  /\ Log(p, <<ReadEv(getRepositoryAsync(args[p].retr.conn), r)>>)
           /\ IF r.throws THEN Throw(p, "projection") /\ UNCHANGED loc
              ELSE IF DeleteOneGuard(r.opt)
                 THEN Goto(p, "del_delete") /\ loc' = [loc EXCEPT ![p].first = r.opt]
              ELSE Return(p, r.opt) /\ UNCHANGED loc
    /\ UNCHANGED <<db, registered, args, notes>>

\* await repo.delete(criteria); then sendEvent with the retrieved value.
DelDelete(p) ==
    /\ pc[p] = "del_delete"
    /\ LET repo == getRepositoryAsync(args[p].conn)
           v == loc[p].first.val
       IN  \E storeOk \in BOOLEAN :
             IF ~storeOk
                THEN /\ Log(p, <<StoreEv("delete", repo, FALSE)>>)
                     /\ Throw(p, "StoreError")
                     /\ UNCHANGED <<db, notes, loc>>
                ELSE /\ Mutate(p, repo, StoreDelete(db[repo], args[p].criteria))
                     /\ IF args[p].notify
                           THEN /\ Log(p, <<StoreEv("delete", repo, TRUE), NotifyEv(v)>>)
                                /\ notes' = [notes EXCEPT ![p] = <<Note(v)>>]
                                /\ Goto(p, "del_await")
                           ELSE /\ Log(p, <<StoreEv("delete", repo, TRUE)>>)
                                /\ UNCHANGED notes
                                /\ Return(p, loc[p].first)
    /\ UNCHANGED <<registered, args>>

\* -------------------------------------------------------------- deleteAsync
StartDeleteAsync(p) ==
    /\ pc[p] = "idle"
    /\ \E c \in Criteria, w \in Wheres, k \in {"list", "listOrNone"}, f \in Projections,
          n \in BOOLEAN, cn \in ConnChoices :
        Begin(p, [NoArgs EXCEPT !.op = "deleteAsync", !.entry = "deleteAsync",
                                !.criteria = c, !.retr = ListOf(k, w, f, cn), !.proj = f,
                                !.notify = n, !.conn = cn], "delmany_retrieve")

\* if (toBeDeletedOrNone.hasValue) { await repo.delete(criteria); ... }
DeleteGuard(toBeDeletedOrNone) == toBeDeletedOrNone.hasValue

DelManyRetrieve(p) ==
    /\ pc[p] = "delmany_retrieve"
    /\ LET r == retrievalFunction(db, args[p].retr)
       IN  /\ Log(p, <<ReadEv(getRepositoryAsync(args[p].retr.conn), r)>>)
           /\ IF r.throws THEN Throw(p, "projection") /\ UNCHANGED loc
              ELSE IF DeleteGuard(r.opt)
                 THEN Goto(p, "delmany_delete") /\ loc' = [loc EXCEPT ![p].first = r.opt]
              ELSE Return(p, SomeList(<< >>)) /\ UNCHANGED loc
    /\ UNCHANGED <<db, registered, args, notes>>

\* Mutant: the forEach over the retrieved values runs before repo.delete.
DelManyDeleteNotifyFirst(p) ==
    /\ pc[p] = "delmany_delete"
    /\ LET repo == getRepositoryAsync(args[p].conn)
           vals == loc[p].first.list
           evs == IF args[p].notify THEN NotifyEvs(vals) ELSE << >>
       IN  /\ notes' = [notes EXCEPT ![p] = IF args[p].notify THEN NotesFor(vals) ELSE << >>]
           /\ \E storeOk \in BOOLEAN :
                IF ~storeOk
                   THEN /\ Log(p, evs \o <<StoreEv("delete", repo, FALSE)>>)
                        /\ Throw(p, "StoreError")
                        /\ UNCHANGED <<db, loc>>
                   ELSE /\ Mutate(p, repo, StoreDelete(db[repo], args[p].criteria))
                        /\ Log(p, evs \o <<StoreEv("delete", repo, TRUE)>>)
                        /\ Return(p, SomeList(vals))
    /\ UNCHANGED <<registered, args>>

\* await repo.delete(criteria); forEach starts one sendEvent per retrieved
\* value and nothing waits for them; return toBeDeletedOrNone.valueOr([]).
DelManyDelete(p) ==
    /\ pc[p] = "delmany_delete"
    /\ LET repo == getRepositoryAsync(args[p].conn)
           vals == loc[p].first.list
       IN  \E storeOk \in BOOLEAN :
             IF ~storeOk
                THEN /\ Log(p, <<StoreEv("delete", repo, FALSE)>>)
                     /\ Throw(p, "StoreError")
                     /\ UNCHANGED <<db, notes, loc>>
                ELSE /\ Mutate(p, repo, StoreDelete(db[repo], args[p].criteria))
                     /\ IF args[p].notify
                           THEN /\ Log(p, <<StoreEv("delete", repo, TRUE)>> \o NotifyEvs(vals))
                                /\ notes' = [notes EXCEPT ![p] = NotesFor(vals)]
                           ELSE /\ Log(p, <<StoreEv("delete", repo, TRUE)>>)
                                /\ UNCHANGED notes
                     /\ Return(p, SomeList(vals))
    /\ UNCHANGED <<registered, args>>

\* ----------------------------------------------------------- createOneAsync
StartCreateOneAsync(p) ==
    /\ pc[p] = "idle"
    /\ \E r \in Rows, f \in Projections, n \in BOOLEAN, cn \in ConnChoices :
        Begin(p, [NoArgs EXCEPT !.op = "createOneAsync", !.entry = "createOneAsync",
                                !.rows = <<r>>, !.proj = f, !.notify = n, !.conn = cn],
              "crtone_save")

\* createFromModel(await repo.save(elementToCreate)); then sendEvent(element).
CreateOneSave(p) ==
    /\ pc[p] = "crtone_save"
    /\ LET repo == getRepositoryAsync(args[p].conn)
           r == args[p].rows[1]
           element == Project(args[p].proj, r)
       IN  \E storeOk \in BOOLEAN :
             IF ~storeOk
                THEN /\ Log(p, <<StoreEv("save", repo, FALSE)>>)
                     /\ Throw(p, "StoreError")
                     /\ UNCHANGED <<db, notes, loc>>
                ELSE /\ db' = [db EXCEPT ![repo] = StoreSave(@, <<r>>)]
                     /\ loc' = [loc EXCEPT ![p].before = db[repo],
                                           ![p].applied = StoreSave(db[repo], <<r>>),
                                           ![p].first = IF ProjectThrows(args[p].proj, r)
                                                           THEN None ELSE Some(element)]
                     /\ IF ProjectThrows(args[p].proj, r)
                           THEN /\ Log(p, <<StoreEv("save", repo, TRUE)>>)
                                /\ Throw(p, "projection")
                                /\ UNCHANGED notes
                        ELSE IF args[p].notify
                           THEN /\ Log(p, <<StoreEv("save", repo, TRUE), NotifyEv(element)>>)
                                /\ notes' = [notes EXCEPT ![p] = <<Note(element)>>]
                                /\ Goto(p, "crtone_await")
                        ELSE /\ Log(p, <<StoreEv("save", repo, TRUE)>>)
                             /\ UNCHANGED notes
                             /\ Return(p, Some(element))
    /\ UNCHANGED <<registered, args>>

\* -------------------------------------------------------------- createAsync
StartCreateAsync(p) ==
    /\ pc[p] = "idle"
    /\ \E b \in Batches, f \in Projections, n \in BOOLEAN, cn \in ConnChoices :
        Begin(p, [NoArgs EXCEPT !.op = "createAsync", !.entry = "createAsync",
                                !.rows = b, !.proj = f, !.notify = n, !.conn = cn],
              "crt_save")

\* Mutant: the callbacks run one after the other and stop at the first
\* createFromModel that throws.
RECURSIVE ProjectableUntilFailure(_, _)
ProjectableUntilFailure(f, rows) ==
    IF rows = << >> \/ ProjectThrows(f, Head(rows)) THEN << >>
    ELSE <<Project(f, Head(rows))>> \o ProjectableUntilFailure(f, Tail(rows))

\* The projections of the entries whose createFromModel does not throw, in
\* save order.
RECURSIVE Projectable(_, _)
Projectable(f, rows) ==
    IF rows = << >> THEN << >>
    ELSE (IF ProjectThrows(f, Head(rows)) THEN << >> ELSE <<Project(f, Head(rows))>>)
         \o Projectable(f, Tail(rows))

\* (await repo.save(elementsToCreate)).map(async entry => ...): every callback
\* runs up to its `await sendEvent(tmp)` at once, in save order; a callback
\* whose createFromModel throws yields a rejected promise and the others
\* run all the same.  Promise.all then waits.
CreateSave(p) ==
    /\ pc[p] = "crt_save"
    /\ LET repo == getRepositoryAsync(args[p].conn)
           rows == args[p].rows
           f == args[p].proj
           vals == Projectable(f, rows)
           rejected == \E k \in 1..Len(rows) : ProjectThrows(f, rows[k])
       IN  \E storeOk \in BOOLEAN :
             IF ~storeOk
                THEN /\ Log(p, <<StoreEv("save", repo, FALSE)>>)
                     /\ Throw(p, "StoreError")
                     /\ UNCHANGED <<db, notes, loc>>
                ELSE /\ db' = [db EXCEPT ![repo] = StoreSave(@, rows)]
                     /\ loc' = [loc EXCEPT ![p].before = db[repo],
                                           ![p].applied = StoreSave(db[repo], rows),
                                           ![p].first = SomeList(vals)]
                     /\ IF args[p].notify
                           THEN /\ Log(p, <<StoreEv("save", repo, TRUE)>> \o NotifyEvs(vals))
                                /\ notes' = [notes EXCEPT ![p] = NotesFor(vals)]
                           ELSE /\ Log(p, <<StoreEv("save", repo, TRUE)>>)
                                /\ UNCHANGED notes
                     /\ IF rejected THEN Throw(p, "projection")
                        ELSE IF args[p].notify /\ vals # << >> THEN Goto(p, "crt_await")
                        ELSE Return(p, SomeList(vals))
    /\ UNCHANGED <<registered, args>>

\* ----------------------------- deleteEntriesBasedOnConditionPessimisticAsync
StartDeleteEntries(p) ==
    /\ pc[p] = "idle"
    /\ \E w \in Clauses, n \in BOOLEAN, cn \in ConnChoices :
        Begin(p, [NoArgs EXCEPT !.op = "deleteEntriesBasedOnConditionPessimisticAsync",
                                !.entry = "deleteEntriesBasedOnConditionPessimisticAsync",
                                !.criteria = w.where, !.params = w.params,
                                !.notify = n, !.conn = cn], "de_select")

\* (await selectQueryBuilderAsync({target, where, parameters, connectionName}))
\* .getMany(); forEach starts one sendEvent per selected row; the delete
\* builder is then made with lockMode "pessimistic_write" and given
\* .where(where, parameters).
DeleteEntriesSelect(p) ==
    /\ pc[p] = "de_select"
    /\ LET sel == selectQueryBuilderAsync(args[p].criteria, args[p].params,
                                          "none", NoVersion, args[p].conn)
           del == deleteQueryBuilderAsync("pessimistic_write", NoVersion)
       IN  \E out \in GetManyOutcomes(db[sel.qb.conn], sel.qb) :
             IF ~out.ok
                THEN /\ Log(p, <<BuilderEv("select", sel.qb, FALSE)>>)
                     /\ Throw(p, "StoreError")
                     /\ UNCHANGED <<loc, notes>>
                ELSE /\ loc' = [loc EXCEPT ![p].sel = RawAll(out.rows),
                                           ![p].qb = Where(del.qb, args[p].criteria,
                                                           args[p].params)]
                     /\ IF args[p].notify
                           THEN /\ Log(p, <<BuilderEv("select", sel.qb, TRUE)>>
                                          \o NotifyEvs(RawAll(out.rows)))
                                /\ notes' = [notes EXCEPT ![p] = NotesFor(RawAll(out.rows))]
                           ELSE /\ Log(p, <<BuilderEv("select", sel.qb, TRUE)>>)
                                /\ UNCHANGED notes
                     /\ Goto(p, "de_delete")
    /\ UNCHANGED <<db, registered, args>>

\* Mutant: the rows are read again after the delete and those are returned.
DeleteEntriesResultReread(entitiesBeingDeleted, remaining) == remaining

\* return entitiesBeingDeleted: the rows as the select found them;
\* `remaining` is what the same select would find after the delete.
DeleteEntriesResult(entitiesBeingDeleted, remaining) == entitiesBeingDeleted

\* await (delete builder).where(where, parameters).execute(); return the
\* rows selected before.
DeleteEntriesDelete(p) ==
    /\ pc[p] = "de_delete"
    /\ LET qb == loc[p].qb
           cond == Resolve(qb.where, qb.params)
       IN  \E storeOk \in BOOLEAN :
             IF ~storeOk \/ ~IsBound(qb.where, qb.params)
                THEN /\ Log(p, <<BuilderEv("delete", qb, FALSE)>>)
                     /\ Throw(p, "StoreError")
                     /\ UNCHANGED <<db, loc>>
                ELSE /\ Mutate(p, qb.conn, StoreDelete(db[qb.conn], cond))
                     /\ Log(p, <<BuilderEv("delete", qb, TRUE)>>)
                     /\ Return(p, SomeList(DeleteEntriesResult(loc[p].sel,
                                     RawAll(GetMany(db'[qb.conn], cond)))))
    /\ UNCHANGED <<registered, args, notes>>

\* ------------------------------------------------------- updateEntriesAsync
StartUpdateEntriesAsync(p) ==
    /\ pc[p] = "idle"
    /\ \E w \in Clauses, e \in Patches, n \in BOOLEAN, l \in LockModes, v \in Versions,
          cn \in ConnChoices :
        Begin(p, [NoArgs EXCEPT !.op = "updateEntriesAsync", !.entry = "updateEntriesAsync",
                                !.criteria = w.where, !.params = w.params,
                                !.patch = e, !.notify = n,
                                !.lock = l, !.version = v, !.conn = cn], "ue_update")

\* simplifiedQueryBuilderAsync({target, lockMode, lockVersion, connectionName})
\* then .update(target).set(updateValues).where(where, parameters).execute().
UpdateEntriesUpdate(p) ==
    /\ pc[p] = "ue_update"
    /\ LET b == simplifiedQueryBuilderAsync(args[p].lock, args[p].version, args[p].conn)
           qb == Where(b.qb, args[p].criteria, args[p].params)
           cond == Resolve(qb.where, qb.params)
       IN  IF ~b.ok
              THEN Throw(p, b.err) /\ UNCHANGED <<db, loc, trace>>
           ELSE \E storeOk \in BOOLEAN :
                  IF \/ ~storeOk
                     \/ ~IsBound(qb.where, qb.params)
                     \/ UpdateViolates(db[qb.conn], cond, args[p].patch)
                     THEN /\ Log(p, <<BuilderEv("update", qb, FALSE)>>)
                          /\ Throw(p, "StoreError")
                          /\ loc' = [loc EXCEPT ![p].qb = qb]
                          /\ UNCHANGED db
                     ELSE /\ db' = [db EXCEPT ![qb.conn] = StoreUpdate(@, cond, args[p].patch)]
                          /\ loc' = [loc EXCEPT ![p].qb = qb,
                                                ![p].before = db[qb.conn],
                                                ![p].applied = StoreUpdate(db[qb.conn],
                                                                   cond, args[p].patch)]
                          /\ Log(p, <<BuilderEv("update", qb, TRUE)>>)
                          /\ Goto(p, "ue_select")
    /\ UNCHANGED <<registered, args, notes>>

\* (await selectQueryBuilderAsync({target, where, connectionName})).getMany():
\* the same where, now without its parameters; forEach starts one sendEvent
\* per selected row; return the selected rows.
UpdateEntriesSelect(p) ==
    /\ pc[p] = "ue_select"
    /\ LET sel == selectQueryBuilderAsync(args[p].criteria, Unset,
                                          "none", NoVersion, args[p].conn)
       IN  \E out \in GetManyOutcomes(db[sel.qb.conn], sel.qb) :
             IF ~out.ok
                THEN /\ Log(p, <<BuilderEv("select", sel.qb, FALSE)>>)
                     /\ Throw(p, "StoreError")
                     /\ UNCHANGED <<loc, notes>>
                ELSE /\ loc' = [loc EXCEPT ![p].sel = RawAll(out.rows)]
                     /\ IF args[p].notify
                           THEN /\ Log(p, <<BuilderEv("select", sel.qb, TRUE)>>
                                          \o NotifyEvs(RawAll(out.rows)))
                                /\ notes' = [notes EXCEPT ![p] = NotesFor(RawAll(out.rows))]
                           ELSE /\ Log(p, <<BuilderEv("select", sel.qb, TRUE)>>)
                                /\ UNCHANGED notes
                     /\ Return(p, SomeList(RawAll(out.rows)))
    /\ UNCHANGED <<db, registered, args>>

\* ---------------------------------------------- findOneAsync, getByIdAsync
StartFindOneAsync(p) ==
    /\ pc[p] = "idle"
    /\ \E c \in Conditions, o \in Orders, f \in Projections, cn \in ConnChoices :
        Begin(p, [NoArgs EXCEPT !.op = "findOneAsync", !.entry = "findOneAsync",
                                !.cond = c, !.order = o, !.proj = f, !.conn = cn],
              "fo_lookup")

StartGetByIdAsync(p) ==
    /\ pc[p] = "idle"
    /\ \E i \in Ids, f \in Projections, cn \in ConnChoices :
        Begin(p, [NoArgs EXCEPT !.op = "findOneAsync", !.entry = "getByIdAsync",
                                !.cond = Scalar(i), !.proj = f, !.conn = cn],
              "fo_lookup")

\* The one store call of a lookup: repo.findOne(id) or getOne().
LookupEv(p, condition, r) ==
    [Event(IF condition.kind = "scalar" THEN "findOne" ELSE "getOne",
           getRepositoryAsync(args[p].conn), "none", ~r.throws, r.opt)
       EXCEPT !.where = Cond(condition.id, condition.name)]

\* return Some(await ...).map(createFromModel)
FindOneLookup(p) ==
    /\ pc[p] = "fo_lookup"
    /\ LET r == findOneAsync(db, args[p].proj, args[p].cond, args[p].order, args[p].conn)
       IN  /\ Log(p, <<LookupEv(p, args[p].cond, r)>>)
           /\ IF r.throws THEN Throw(p, "projection") ELSE Return(p, r.opt)
    /\ UNCHANGED <<db, registered, args, loc, notes>>

\* ------------------------------------------ findOneAlternativeConditionAsync
StartFindOneAlternative(p) ==
    /\ pc[p] = "idle"
    /\ \E c \in Conditions, a \in Conditions, o \in Orders, f \in Projections,
          cn \in ConnChoices :
        Begin(p, [NoArgs EXCEPT !.op = "findOneAlternativeConditionAsync",
                                !.entry = "findOneAlternativeConditionAsync",
                                !.cond = c, !.alt = a, !.order = o, !.proj = f,
                                !.conn = cn], "foa_first")

\* Mutant: the first lookup is never taken.
FirstOptionNever(firstOptionOrNone) == FALSE

\* if (firstOptionOrNone.hasValue) return firstOptionOrNone;
FirstOptionTaken(firstOptionOrNone) == firstOptionOrNone.hasValue

FoaFirst(p) ==
    /\ pc[p] = "foa_first"
    /\ LET r == findOneAsync(db, args[p].proj, args[p].cond, args[p].order, args[p].conn)
       IN  /\ Log(p, <<LookupEv(p, args[p].cond, r)>>)
           /\ IF r.throws THEN Throw(p, "projection")
              ELSE IF FirstOptionTaken(r.opt) THEN Return(p, r.opt)
              ELSE Goto(p, "foa_second")
    /\ UNCHANGED <<db, registered, args, loc, notes>>

\* return findOneAsync({..., condition: alternativeCondition, orderByCondition})
FoaSecond(p) ==
    /\ pc[p] = "foa_second"
    /\ LET r == findOneAsync(db, args[p].proj, args[p].alt, args[p].order, args[p].conn)
       IN  /\ Log(p, <<LookupEv(p, args[p].alt, r)>>)
           /\ IF r.throws THEN Throw(p, "projection") ELSE Return(p, r.opt)
    /\ UNCHANGED <<db, registered, args, loc, notes>>

\* ------------------------------------------------------ anyAsync, findAsync
StartAnyAsync(p) ==
    /\ pc[p] = "idle"
    /\ \E c \in FieldConditions, cn \in ConnChoices :
        Begin(p, [NoArgs EXCEPT !.op = "anyAsync", !.entry = "anyAsync",
                                !.cond = c, !.conn = cn], "any_count")

\* return (await queryBuilder.getCount()) > 0
AnyCount(p) ==
    /\ pc[p] = "any_count"
    /\ Log(p, <<[Event("getCount", getRepositoryAsync(args[p].conn), "none", TRUE, None)
                   EXCEPT !.where = Cond(args[p].cond.id, args[p].cond.name)]>>)
    /\ pc' = [pc EXCEPT ![p] = "done"]
    /\ ret' = [ret EXCEPT ![p] = ReturnedFlag(anyAsync(db, args[p].cond, args[p].conn))]
    /\ UNCHANGED <<db, registered, args, loc, notes>>

StartFindAsync(p) ==
    /\ pc[p] = "idle"
    /\ \E c \in FieldConditions, o \in Orders, f \in Projections, t \in Amounts,
          k \in Amounts, cn \in ConnChoices :
        Begin(p, [NoArgs EXCEPT !.op = "findAsync", !.entry = "findAsync",
                                !.cond = c, !.order = o, !.proj = f,
                                !.take = t, !.skip = k, !.conn = cn], "find_many")

\* return (await queryBuilder.getMany()).map(createFromModel)
FindMany(p) ==
    /\ pc[p] = "find_many"
    /\ LET r == findAsync(db, args[p].proj, args[p].cond, args[p].order,
                          args[p].take, args[p].skip, args[p].conn)
       IN  /\ Log(p, <<[Event("getMany", getRepositoryAsync(args[p].conn), "none",
                               ~r.throws, r.opt)
                          EXCEPT !.where = Cond(args[p].cond.id, args[p].cond.name)]>>)
           /\ IF r.throws THEN Throw(p, "projection") ELSE Return(p, r.opt)
    /\ UNCHANGED <<db, registered, args, loc, notes>>

\* ------------------------------------------- the exported builder functions
\* They only build: no store call is made, so the call is one step.
BuilderCall(p, entry, l, v, cn, b) ==
    /\ args' = [args EXCEPT ![p] = [NoArgs EXCEPT !.op = entry, !.entry = entry,
                                                  !.lock = l, !.version = v, !.conn = cn]]
    /\ pc' = [pc EXCEPT ![p] = IF b.ok THEN "done" ELSE "failed"]
    /\ ret' = [ret EXCEPT ![p] = IF b.ok THEN ReturnedQB(b.qb) ELSE Raised(b.err)]
    /\ UNCHANGED <<db, registered, loc, trace, notes>>

CallCreateQueryBuilderAsync(p) ==
    /\ pc[p] = "idle"
    /\ \E l \in LockModes, v \in Versions, cn \in ConnChoices :
        BuilderCall(p, "createQueryBuilderAsync", l, v, cn,
                    createQueryBuilderAsync(l, v, cn))

CallSelectQueryBuilderAsync(p) ==
    /\ pc[p] = "idle"
    /\ \E w \in Clauses, l \in LockModes, v \in Versions, cn \in ConnChoices :
        BuilderCall(p, "selectQueryBuilderAsync", l, v, cn,
                    selectQueryBuilderAsync(w.where, w.params, l, v, cn))

\* ------------------------------------------------------ sendEvent completes
Settled(ns) == {k \in 1..Len(ns) : ns[k].st # "pending"}

\* Mutant: Promise.race / Promise.any instead of Promise.all.
PromiseAnyFulfilled(ns) == \E k \in 1..Len(ns) : ns[k].st = "ok"

\* Promise.all(...) fulfils once every callback's promise has fulfilled.
PromiseAllFulfilled(ns) == \A k \in 1..Len(ns) : ns[k].st = "ok"

\* Mutant: the mutation is undone when sendEvent rejects.
SendEventRejectedRollback(p) ==
    /\ Throw(p, "sendEvent")
    /\ db' = [db EXCEPT ![getRepositoryAsync(args[p].conn)] = loc[p].before]

\* Mutant: sendEvent is wrapped in try/catch and its error is dropped.
SendEventRejectedSwallowed(p) ==
    /\ IF pc[p] = "upd_await" THEN Goto(p, "upd_retrieve2") ELSE Return(p, loc[p].first)
    /\ UNCHANGED db

\* `await sendEvent(...)` rejects: the error leaves the operation; the store
\* is not touched.
SendEventRejected(p) ==
    /\ Throw(p, "sendEvent")
    /\ UNCHANGED db

\* A started sendEvent call settles.  The awaiting paths continue or fail on
\* it; in the forEach paths nothing is waiting and the outcome is dropped.
NotifyDone(p) ==
    \E k \in 1..Len(notes[p]), ok \in BOOLEAN :
        /\ notes[p][k].st = "pending"
        /\ notes' = [notes EXCEPT ![p][k].st = IF ok THEN "ok" ELSE "raised",
                                  ![p][k].at = Cardinality(Settled(notes[p])) + 1]
        /\ IF pc[p] = "upd_await"
              THEN IF ok THEN Goto(p, "upd_retrieve2") /\ UNCHANGED db
                   ELSE SendEventRejected(p)
           ELSE IF pc[p] \in {"del_await", "crtone_await"}
              THEN IF ok THEN Return(p, loc[p].first) /\ UNCHANGED db
                   ELSE SendEventRejected(p)
           ELSE IF pc[p] = "crt_await"
              THEN IF ~ok THEN SendEventRejected(p)
                   ELSE IF PromiseAllFulfilled(notes'[p])
                      THEN Return(p, loc[p].first) /\ UNCHANGED db
                   ELSE UNCHANGED <<pc, ret, db>>
           ELSE UNCHANGED <<pc, ret, db>>
        /\ UNCHANGED <<registered, args, loc, trace>>

\* ------------------------------------------------------------ specification
\* One caller at a time.
Caller == CHOOSE p \in Procs : \A q \in Procs : p <= q

Next ==
    \/ StartUpdateAsync(Caller)
    \/ StartUpdateByIdAsync(Caller)
    \/ UpdRetrieve(Caller)
    \/ UpdUpdate(Caller)
    \/ UpdRetrieve2(Caller)
    \/ StartDeleteOneAsync(Caller)
    \/ StartDeleteByIdAsync(Caller)
    \/ DelRetrieve(Caller)
    \/ DelDelete(Caller)
    \/ StartDeleteAsync(Caller)
    \/ DelManyRetrieve(Caller)
    \/ DelManyDelete(Caller)
    \/ StartCreateOneAsync(Caller)
    \/ CreateOneSave(Caller)
    \/ StartCreateAsync(Caller)
    \/ CreateSave(Caller)
    \/ StartDeleteEntries(Caller)
    \/ DeleteEntriesSelect(Caller)
    \/ DeleteEntriesDelete(Caller)
    \/ StartUpdateEntriesAsync(Caller)
    \/ UpdateEntriesUpdate(Caller)
    \/ UpdateEntriesSelect(Caller)
    \/ StartFindOneAsync(Caller)
    \/ StartGetByIdAsync(Caller)
    \/ FindOneLookup(Caller)
    \/ StartFindOneAlternative(Caller)
    \/ FoaFirst(Caller)
    \/ FoaSecond(Caller)
    \/ StartAnyAsync(Caller)
    \/ AnyCount(Caller)
    \/ StartFindAsync(Caller)
    \/ FindMany(Caller)
    \/ CallCreateQueryBuilderAsync(Caller)
    \/ CallSelectQueryBuilderAsync(Caller)
    \/ NotifyDone(Caller)

Spec == Init /\ [][Next]_vars

\* The application has set up a second data source next to the default one,
\* and callers may name it.
InitConn ==
    /\ registered = Conns
    /\ db \in [Conns -> Tables]
    /\ pc = [p \in Procs |-> "idle"]
    /\ args = [p \in Procs |-> NoArgs]
    /\ loc = [p \in Procs |-> NoLoc]
    /\ trace = [p \in Procs |-> << >>]
    /\ notes = [p \in Procs |-> << >>]
    /\ ret = [p \in Procs |-> Running]

SpecConn == InitConn /\ [][Next]_vars

\* Concurrent callers.  Every caller makes one call, and the steps of the
\* calls interleave at their suspension points; the store runs each call it
\* is given in one step.  The callers pass a createFromModel that keeps both
\* fields and a sendEvent, a retrieval for the record their criteria name,
\* and a patch that leaves the id alone.
Plain(a) ==
    /\ a.proj = "full" /\ a.retr.proj = "full"
    /\ a.notify
    /\ a.patch.id = Unset
    /\ a.op = "updateAsync" => a.retr.id = a.criteria.id

NextPar ==
    \E p \in Procs :
        \/ StartDeleteEntries(p) /\ Plain(args'[p])
        \/ DeleteEntriesSelect(p)
        \/ DeleteEntriesDelete(p)
        \/ StartCreateOneAsync(p) /\ Plain(args'[p])
        \/ CreateOneSave(p)
        \/ StartUpdateAsync(p) /\ Plain(args'[p])
        \/ StartUpdateByIdAsync(p) /\ Plain(args'[p])
        \/ UpdRetrieve(p)
        \/ UpdUpdate(p)
        \/ UpdRetrieve2(p)
        \/ StartDeleteByIdAsync(p) /\ Plain(args'[p])
        \/ DelRetrieve(p)
        \/ DelDelete(p)
        \/ NotifyDone(p)

SpecPar == Init /\ [][NextPar]_vars

\* ------------------------------------------------------------------ claims
EvNames(t) == [k \in 1..Len(t) |-> t[k].ev]
IsPrefix(a, b) == Len(a) <= Len(b) /\ \A k \in 1..Len(a) : a[k] = b[k]
Count(t, e) == Cardinality({k \in 1..Len(t) : t[k].ev = e})
SomeRaised(ns) == \E k \in 1..Len(ns) : ns[k].st = "raised"
\* The first retrieval of the call has answered, and what it answered.
Retrieved(p) == trace[p] # << >> /\ trace[p][1].ev = "retrieve" /\ trace[p][1].ok
First(p) == trace[p][1].opt

\* C1: updateAsync whose first retrieval yields an absent Optional fails with
\* the not-possible-to-update error; it issues no store update, sends no
\* event and makes no second retrieval.
C1_UpdateAbsentFailsBeforeWrite ==
    \A p \in Procs :
        (args[p].op = "updateAsync" /\ Retrieved(p) /\ ~First(p).hasValue) =>
            /\ pc[p] = "failed"
            /\ ret[p].err = "Not possible to update the given entity"
            /\ Len(trace[p]) = 1
            /\ notes[p] = << >>
            /\ loc[p] = NoLoc

C1_Witness ==
    \E p \in Procs :
        /\ args[p].op = "updateAsync" /\ Retrieved(p) /\ ~First(p).hasValue
        /\ pc[p] = "failed"

\* C2: updateAsync with sendEvent and a present first retrieval runs
\* retrieve, update, sendEvent, retrieve, return in that order: sendEvent is
\* invoked once, only after the update succeeded, with the value of the first
\* retrieval, and the second retrieval is issued only after sendEvent
\* completed; its answer is what the call returns.
UpdateOrder == <<"retrieve", "update", "notify", "retrieve">>
C2_UpdateOrderAndPreMutationEvent ==
    \A p \in Procs :
        (args[p].op = "updateAsync" /\ args[p].notify /\ Retrieved(p) /\ First(p).hasValue) =>
            LET t == trace[p]
            IN  /\ IsPrefix(EvNames(t), UpdateOrder)
                /\ Len(t) = 2 => (~t[2].ok /\ pc[p] = "failed")
                /\ Len(t) >= 3 => (t[2].ok /\ t[3].opt = First(p) /\ Len(notes[p]) = 1)
                /\ Len(t) = 4 => notes[p][1].st = "ok"
                /\ pc[p] = "done" => (Len(t) = 4 /\ ret[p].opt = t[4].opt)

C2_Witness ==
    \E p \in Procs :
        /\ args[p].op = "updateAsync" /\ args[p].notify /\ pc[p] = "done"
        /\ Len(trace[p]) = 4
        /\ trace[p][3].opt = First(p)
        /\ trace[p][4].opt # First(p)

\* What updateByIdAsync(id, patch) returns when it reflects the patch: the
\* projection of the record found first with the patch's fields put in.
Reflected(p) ==
    [shape |-> args[p].proj,
     id |-> IF args[p].patch.id = Unset THEN args[p].criteria.id ELSE args[p].patch.id,
     name |-> IF args[p].proj = "idOnly" THEN Unset
              ELSE IF args[p].patch.name # Unset THEN args[p].patch.name
              ELSE loc[p].first.val.name]
Fresh(p) == findOneAsync(db, args[p].proj, Scalar(args[p].criteria.id), "none", args[p].conn)
KeepsId(p) == args[p].patch.id \in {Unset, args[p].criteria.id}

\* C3 as stated: updateByIdAsync(id, patch) on an existing record returns a
\* present Optional that reflects the patch and equals a fresh
\* findOneAsync(id), for every record and every patch.
C3_Original ==
    \A p \in Procs :
        (args[p].entry = "updateByIdAsync" /\ pc[p] = "done") =>
            /\ ret[p].opt.hasValue
            /\ ret[p].opt.val = Reflected(p)
            /\ ret[p].opt = Fresh(p).opt

\* C3 (amended): updateByIdAsync(id, patch) on an existing record returns
\* what a fresh findOneAsync(id) returns right after the call; when the patch
\* leaves the id alone this is a present Optional reflecting the patch, and
\* when the patch moves the record to another id it is absent.
C3_UpdateByIdReturnsFreshLookup ==
    \A p \in Procs :
        (args[p].entry = "updateByIdAsync" /\ pc[p] = "done") =>
            /\ ~Fresh(p).throws
            /\ ret[p].opt = Fresh(p).opt
            /\ KeepsId(p) => (ret[p].opt.hasValue /\ ret[p].opt.val = Reflected(p))
            /\ ~KeepsId(p) => ~ret[p].opt.hasValue

C3_Witness ==
    \E p \in Procs :
        /\ args[p].entry = "updateByIdAsync" /\ pc[p] = "done"
        /\ KeepsId(p)
        /\ ret[p].opt.hasValue
        /\ ret[p].opt # loc[p].first

\* C4: deleteOneAsync issues no delete and no sendEvent and returns absent
\* when the retrieval yields absent; when it yields a value it issues one
\* delete, then one sendEvent with that value, and returns that value.
C4_DeleteOneGuarded ==
    \A p \in Procs :
        (args[p].op = "deleteOneAsync" /\ Retrieved(p)) =>
            LET t == trace[p]
            IN  /\ Count(t, "delete") <= 1
                /\ Count(t, "notify") <= 1
                /\ ~First(p).hasValue =>
                      /\ pc[p] = "done" /\ ret[p].opt = None
                      /\ Len(t) = 1 /\ notes[p] = << >> /\ loc[p] = NoLoc
                /\ (First(p).hasValue /\ pc[p] = "done") =>
                      /\ ret[p].opt = First(p)
                      /\ t[2].ev = "delete" /\ t[2].ok
                      /\ IF args[p].notify
                            THEN /\ EvNames(t) = <<"retrieve", "delete", "notify">>
                                 /\ t[3].opt = First(p)
                                 /\ notes[p][1].st = "ok"
                            ELSE EvNames(t) = <<"retrieve", "delete">>

C4_Witness ==
    \E p \in Procs :
        /\ args[p].op = "deleteOneAsync" /\ args[p].notify /\ pc[p] = "done"
        /\ First(p).hasValue
        /\ loc[p].before # loc[p].applied

\* C5 as stated: deleteAsync whose retrieval yields an absent Optional, or a
\* present Optional holding an empty sequence, returns an empty sequence and
\* issues no store delete.
C5_DeleteManyNothingToDelete ==
    \A p \in Procs :
        (/\ args[p].op = "deleteAsync" /\ Retrieved(p)
         /\ (~First(p).hasValue \/ First(p).list = << >>)) =>
            /\ Count(trace[p], "delete") = 0
            /\ ret[p].st # "raised"
            /\ pc[p] = "done" => ret[p].opt = SomeList(<< >>)

\* C6 as stated: in no mutating operation does the outcome of sendEvent
\* change the operation's result; a failing sendEvent never becomes the
\* operation's failure.
C6_Original ==
    \A p \in Procs : SomeRaised(notes[p]) => ret[p].err # "sendEvent"

Awaiting == {"createOneAsync", "createAsync", "updateAsync", "deleteOneAsync"}
Detached ==
    {"deleteAsync", "deleteEntriesBasedOnConditionPessimisticAsync", "updateEntriesAsync"}

\* C6 (amended): in deleteAsync, deleteEntriesBasedOnConditionPessimisticAsync
\* and updateEntriesAsync the outcome of sendEvent never changes the result:
\* the call returns the rows it retrieved or selected whether sendEvent
\* fails or not.  In createOneAsync, createAsync, updateAsync and
\* deleteOneAsync a failing sendEvent makes the operation fail with that
\* error (createAsync may have failed already, on a projection that threw).
C6_EventOutcomeAndResult ==
    \A p \in Procs :
        /\ ret[p].err = "sendEvent" => args[p].op \in Awaiting
        /\ (args[p].op \in Detached /\ pc[p] = "done") =>
              ret[p].opt = SomeList(IF args[p].op = "deleteAsync"
                                       THEN loc[p].first.list ELSE loc[p].sel)
        /\ (args[p].op \in Detached /\ SomeRaised(notes[p]) /\ ret[p].st = "raised") =>
              ret[p].err = "StoreError"
        /\ (args[p].op \in Awaiting /\ SomeRaised(notes[p])) =>
              /\ ret[p].st = "raised"
              /\ \/ ret[p].err = "sendEvent"
                 \/ args[p].op = "createAsync" /\ ret[p].err = "projection"

C6_Witness ==
    \E p \in Procs :
        /\ args[p].op \in Detached /\ pc[p] = "done"
        /\ SomeRaised(notes[p])
        /\ ret[p].opt.list # << >>

\* C7: in createOneAsync, updateAsync and deleteOneAsync a sendEvent that
\* raises makes the operation fail with that error on the spot: no later
\* step runs and the save, update or delete already made stays applied.
C7_EventFailureAbortsAfterMutation ==
    \A p \in Procs :
        (/\ args[p].op \in {"createOneAsync", "updateAsync", "deleteOneAsync"}
         /\ SomeRaised(notes[p])) =>
            /\ pc[p] = "failed"
            /\ ret[p].err = "sendEvent"
            /\ trace[p][Len(trace[p])].ev = "notify"
            /\ db[getRepositoryAsync(args[p].conn)] = loc[p].applied

C7_Witness ==
    \E p \in Procs :
        /\ args[p].op = "updateAsync" /\ SomeRaised(notes[p])
        /\ pc[p] = "failed"
        /\ loc[p].before # loc[p].applied

Mutations == {"save", "update", "delete"}
AfterMutation(t, k) == \E j \in 1..(k - 1) : t[j].ev \in Mutations /\ t[j].ok

\* C8 as stated: in every mutating operation sendEvent is invoked only after
\* the store mutation has completed successfully.
C8_Original ==
    \A p \in Procs : \A k \in 1..Len(trace[p]) :
        trace[p][k].ev = "notify" => AfterMutation(trace[p], k)

\* C8 (amended): in every mutating operation but
\* deleteEntriesBasedOnConditionPessimisticAsync, sendEvent is invoked only
\* after the store mutation has completed successfully.  In
\* deleteEntriesBasedOnConditionPessimisticAsync the sendEvent calls are
\* started after the select and before the delete is issued, whether or not
\* the delete then succeeds.
C8_EventAfterMutation ==
    \A p \in Procs : \A k \in 1..Len(trace[p]) :
        trace[p][k].ev = "notify" =>
            IF args[p].op = "deleteEntriesBasedOnConditionPessimisticAsync"
               THEN /\ \E j \in 1..(k - 1) : trace[p][j].ev = "select"
                    /\ \A j \in 1..(k - 1) : trace[p][j].ev # "delete"
               ELSE AfterMutation(trace[p], k)

C8_Witness ==
    \E p \in Procs :
        /\ args[p].op = "deleteAsync" /\ pc[p] = "done"
        /\ Count(trace[p], "notify") = 2

\* C9: createAsync invokes sendEvent once per saved record, with that
\* record's projection, returns only after every sendEvent call has
\* completed, and returns the projections in save order whatever order the
\* calls completed in.
C9_CreateManyAwaitsAll ==
    \A p \in Procs :
      /\ (args[p].op = "createAsync" /\ args[p].notify /\ trace[p] # << >> /\ trace[p][1].ok) =>
            /\ Count(trace[p], "notify") = Len(notes[p])
            /\ [k \in 1..Len(notes[p]) |-> notes[p][k].val]
                  = Projectable(args[p].proj, args[p].rows)
      /\ (args[p].op = "createAsync" /\ pc[p] = "done") =>
            /\ ret[p].opt = SomeList(ProjectAll(args[p].proj, args[p].rows))
            /\ Count(trace[p], "notify") = IF args[p].notify THEN Len(args[p].rows) ELSE 0
            /\ args[p].notify =>
                  /\ Len(notes[p]) = Len(args[p].rows)
                  /\ \A k \in 1..Len(notes[p]) :
                        /\ notes[p][k].val = Project(args[p].proj, args[p].rows[k])
                        /\ notes[p][k].st = "ok"

C9_Witness ==
    \E p \in Procs :
        /\ args[p].op = "createAsync" /\ args[p].notify /\ pc[p] = "done"
        /\ Len(args[p].rows) = 2
        /\ args[p].rows[1] # args[p].rows[2]
        /\ notes[p][2].at < notes[p][1].at

\* C10 as stated: optimistic lock mode without a version token raises the
\* missing-version error before any store call, through
\* createQueryBuilderAsync, selectQueryBuilderAsync and updateEntriesAsync
\* alike; no builder is handed out and no statement is run without the lock.
C10_OptimisticNeedsVersion ==
    \A p \in Procs :
        (/\ args[p].entry \in {"createQueryBuilderAsync", "selectQueryBuilderAsync",
                               "updateEntriesAsync"}
         /\ args[p].lock = "optimistic"
         /\ args[p].version = NoVersion) =>
            /\ trace[p] = << >>
            /\ ret[p].st # "returned"
            /\ pc[p] = "failed" => ret[p].err = "Lock version not specified"

\* The condition a query-builder call of caller p runs with, and the data
\* source the caller named.
CondOf(p) == Resolve(args[p].criteria, args[p].params)
NamedSource(p) == getRepositoryAsync(args[p].conn)
IsDeleteEntries(p) == args[p].op = "deleteEntriesBasedOnConditionPessimisticAsync"

\* C11: deleteEntriesBasedOnConditionPessimisticAsync, run alone, returns
\* exactly the rows that matched the condition before the call, with their
\* pre-delete values; after it has returned no row matches the condition and
\* the rows that did not match are unchanged.
C11_DeleteEntriesReturnsMatched ==
    \A p \in Procs :
        (IsDeleteEntries(p) /\ pc[p] = "done") =>
            /\ ret[p].opt = SomeList(RawAll(GetMany(loc[p].before, CondOf(p))))
            /\ Matching(db[NamedSource(p)], CondOf(p)) = {}
            /\ \A i \in Ids \ Matching(loc[p].before, CondOf(p)) :
                  db[NamedSource(p)][i] = loc[p].before[i]

C11_Witness ==
    \E p \in Procs :
        /\ IsDeleteEntries(p) /\ pc[p] = "done"
        /\ Len(ret[p].opt.list) = 1
        /\ \E i \in Ids : db[NamedSource(p)][i] # NoRow

\* What findAsync without take and skip answers for the caller's condition on
\* the current store.
FindAll(p, f, o) ==
    findAsync(db, f, args[p].cond, o, NoAmount, NoAmount, args[p].conn)

\* C12: on one store state, anyAsync(cond) is true exactly when findAsync(cond)
\* without take / skip returns a non-empty sequence, for every field-match
\* condition and the omitted one; when findAsync fails in createFromModel
\* there were rows and anyAsync is true.
C12_AnyIffFindNonEmpty ==
    \A p \in Procs :
        /\ (args[p].op = "anyAsync" /\ pc[p] = "done") =>
              \A f \in Projections, o \in Orders :
                  IF FindAll(p, f, o).throws THEN ret[p].flag
                  ELSE ret[p].flag = (FindAll(p, f, o).opt.list # << >>)
        /\ (args[p].op = "findAsync" /\ args[p].take = NoAmount /\ args[p].skip = NoAmount) =>
              /\ pc[p] = "done" =>
                    (ret[p].opt.list # << >>) = anyAsync(db, args[p].cond, args[p].conn)
              /\ pc[p] = "failed" => anyAsync(db, args[p].cond, args[p].conn)

C12_Witness ==
    \E p \in Procs :
        /\ args[p].op = "anyAsync" /\ pc[p] = "done"
        /\ ret[p].flag
        /\ args[p].cond.name # Unset
        /\ \E i \in Ids : db[NamedSource(p)][i] \notin {NoRow, args[p].cond.name}

IsFoa(p) == args[p].op = "findOneAlternativeConditionAsync"
FoaLookup(p, c) == findOneAsync(db, args[p].proj, c, args[p].order, args[p].conn)

\* C13: findOneAlternativeConditionAsync returns what findOneAsync(condition)
\* returns when that is present, after one lookup only; otherwise it returns
\* what findOneAsync(alternativeCondition) returns with the same ordering,
\* present(X) when that matches X.
C13_AlternativeCondition ==
    \A p \in Procs :
        /\ (IsFoa(p) /\ pc[p] = "done" /\ FoaLookup(p, args[p].cond).opt.hasValue) =>
              /\ ret[p].opt = FoaLookup(p, args[p].cond).opt
              /\ Len(trace[p]) = 1
        /\ (IsFoa(p) /\ pc[p] = "done" /\ ~FoaLookup(p, args[p].cond).opt.hasValue) =>
              /\ ret[p].opt = FoaLookup(p, args[p].alt).opt
              /\ Len(trace[p]) = 2
              /\ trace[p][2].where = Cond(args[p].alt.id, args[p].alt.name)
        /\ (IsFoa(p) /\ pc[p] = "failed") =>
              \/ FoaLookup(p, args[p].cond).throws
              \/ FoaLookup(p, args[p].alt).throws

C13_Witness ==
    \E p \in Procs :
        /\ IsFoa(p) /\ pc[p] = "done"
        /\ Len(trace[p]) = 2
        /\ args[p].alt.kind = "fields" /\ args[p].order = "idDesc"
        /\ ret[p].opt.hasValue /\ ret[p].opt.val.id > 1
        /\ Cardinality(Matching(db[NamedSource(p)], args[p].alt)) > 1

\* The record createOneAsync was given, and findOneAsync(id) for its identity
\* on the store as the call left it, projecting with f.
Created(p) == args[p].rows[1]
FindCreated(p, f) == findOneAsync(db, f, Scalar(Created(p).id), "none", args[p].conn)

\* C14: once createOneAsync(x) has returned, findOneAsync(x.id) returns a
\* present Optional holding the projection of x, for every projection defined
\* on x; with the projection createOneAsync was given, that is the value
\* createOneAsync returned.
C14_CreateThenFindOne ==
    \A p \in Procs :
        (args[p].op = "createOneAsync" /\ pc[p] = "done") =>
            /\ \A f \in Projections :
                  ~ProjectThrows(f, Created(p)) =>
                      FindCreated(p, f) = Read(Some(Project(f, Created(p))))
            /\ FindCreated(p, args[p].proj) = Read(ret[p].opt)

\* createOneAsync has returned after replacing a row that held another name.
C14_Witness ==
    \E p \in Procs :
        /\ args[p].op = "createOneAsync" /\ pc[p] = "done"
        /\ args[p].proj = "idOnly"
        /\ loc[p].before[Created(p).id] \notin {NoRow, Created(p).name}

\* No stored record matches the condition of the lookup of caller p.
NoMatch(p) ==
    IF args[p].cond.kind = "scalar"
       THEN db[NamedSource(p)][args[p].cond.id] = NoRow
       ELSE Matching(db[NamedSource(p)], args[p].cond) = {}

\* C15: findOneAsync and getByIdAsync with an identity or a condition that
\* matches no stored record return an absent Optional and do not raise,
\* whatever createFromModel does on the records it is given.
C15_FindOneAbsent ==
    \A p \in Procs :
        (args[p].op = "findOneAsync" /\ pc[p] \in {"done", "failed"} /\ NoMatch(p)) =>
            /\ pc[p] = "done"
            /\ ret[p].opt = None
            /\ Len(trace[p]) = 1 /\ trace[p][1].ok

C15_Witness ==
    \E p \in Procs :
        /\ args[p].op = "findOneAsync" /\ args[p].entry = "getByIdAsync"
        /\ pc[p] = "done" /\ NoMatch(p)
        /\ args[p].proj = "strict"
        /\ \E i \in Ids : db[NamedSource(p)][i] = 1

\* C16: every store access of an invocation goes to the data source the
\* caller named; a builder handed back by an entry point is one on that data
\* source.
C16_OneDataSource ==
    \A p \in Procs :
        /\ \A k \in 1..Len(trace[p]) :
              trace[p][k].ev # "notify" => trace[p][k].conn = NamedSource(p)
        /\ (pc[p] = "done" /\ args[p].op \in {"createQueryBuilderAsync",
                                             "selectQueryBuilderAsync"}) =>
              ret[p].qb.conn = NamedSource(p)

\* The sendEvent invocations deleteEntries... makes for the rows it selected.
SelectedEvs(p) == IF args[p].notify THEN NotifyEvs(loc[p].sel) ELSE << >>
SameClause(p, e) == e.where = args[p].criteria /\ e.params = args[p].params

\* C17: deleteEntriesBasedOnConditionPessimisticAsync selects the matching
\* rows, starts one sendEvent per selected row, and then issues one delete
\* with the same where and parameters and the pessimistic_write lock mode; the
\* select and the delete are two store calls, and between them the selected
\* rows are still stored.
C17_DeleteEntriesOrder ==
    \A p \in Procs :
        /\ (IsDeleteEntries(p) /\ pc[p] = "de_delete") =>
              /\ trace[p] = <<trace[p][1]>> \o SelectedEvs(p)
              /\ trace[p][1].ev = "select" /\ SameClause(p, trace[p][1])
              /\ loc[p].sel = RawAll(GetMany(db[trace[p][1].conn], CondOf(p)))
        /\ (IsDeleteEntries(p) /\ pc[p] \in {"done", "failed"}) =>
              LET n == Len(trace[p])
              IN  /\ trace[p] = <<trace[p][1]>> \o SelectedEvs(p) \o <<trace[p][n]>>
                  /\ trace[p][1].ev = "select" /\ SameClause(p, trace[p][1])
                  /\ trace[p][n].ev = "delete" /\ SameClause(p, trace[p][n])
                  /\ trace[p][n].lock = "pessimistic_write"
                  /\ Count(trace[p], "delete") = 1 /\ Count(trace[p], "select") = 1

C17_Witness ==
    \E p \in Procs :
        /\ IsDeleteEntries(p) /\ pc[p] = "done"
        /\ args[p].notify /\ args[p].criteria = NamedWhere
        /\ Len(loc[p].sel) = 2 /\ Len(trace[p]) = 4

\* The number of records a bulk call acted on: what the retrieval reported
\* (deleteAsync), or the rows its where matched when the mutation ran.
Affected(p) ==
    IF args[p].op = "deleteAsync" THEN Len(loc[p].first.list)
    ELSE Cardinality(Matching(loc[p].before, CondOf(p)))

\* C18: in deleteAsync, deleteEntriesBasedOnConditionPessimisticAsync and
\* updateEntriesAsync one sendEvent call has been started for every affected
\* record when the operation returns; the operation does not wait for them,
\* and a sendEvent call that fails does not make the operation fail.
C18_DetachedEventPerRecord ==
    \A p \in Procs :
        /\ (args[p].op \in Detached /\ args[p].notify /\ pc[p] = "done") =>
              /\ Len(notes[p]) = Affected(p)
              /\ Count(trace[p], "notify") = Affected(p)
        /\ (args[p].op \in Detached /\ SomeRaised(notes[p])) => ret[p].err # "sendEvent"

\* C19: createQueryBuilderAsync with lockMode "optimistic" accepts every
\* version token, a number (0 included) or a Date, and sets the optimistic
\* lock with exactly that token; it raises "Lock version not specified" only
\* when no token was given.
C19_OptimisticAcceptsEveryToken ==
    \A p \in Procs :
        (args[p].op = "createQueryBuilderAsync" /\ args[p].lock = "optimistic") =>
            IF args[p].version = NoVersion
               THEN ret[p] = Raised("Lock version not specified")
               ELSE /\ pc[p] = "done"
                    /\ ret[p].qb.lock = "optimistic"
                    /\ ret[p].qb.version = args[p].version

\* The rows matching the condition of a findAsync call, in the order asked for.
FindMatches(p) == OrderBy(GetMany(db[NamedSource(p)], args[p].cond), args[p].order)

\* C20: findAsync returns at most n projections for every take value n >= 0
\* given, leaves out the first k matching rows for every skip value k >= 0
\* given, and with neither given and no condition returns every stored row
\* once.
C20_TakeAndSkip ==
    \A p \in Procs :
        (args[p].op = "findAsync" /\ pc[p] = "done") =>
            /\ args[p].take.given => Len(ret[p].opt.list) <= args[p].take.n
            /\ args[p].skip.given =>
                  IsPrefix(ret[p].opt.list,
                           ProjectAll(args[p].proj, Skip(FindMatches(p), args[p].skip.n)))
            /\ (~args[p].take.given /\ ~args[p].skip.given /\ args[p].cond = NoCondition) =>
                  ret[p].opt.list = ProjectAll(args[p].proj, FindMatches(p))

\* The identities of the rows the delete of caller p removed from the store.
Removed(p) == Matching(loc[p].before, Resolve(loc[p].qb.where, loc[p].qb.params))

\* C21: whatever other callers do meanwhile, every row that the delete of
\* deleteEntriesBasedOnConditionPessimisticAsync removes is in the sequence the
\* call returns and had a sendEvent call started for it.
C21_NoUnreportedDelete ==
    \A p \in Procs :
        (IsDeleteEntries(p) /\ pc[p] = "done") =>
            \A i \in Removed(p) :
                /\ \E k \in 1..Len(ret[p].opt.list) : ret[p].opt.list[k].id = i
                /\ args[p].notify => \E k \in 1..Len(notes[p]) : notes[p][k].val.id = i

IsUpdateById(p) == args[p].entry = "updateByIdAsync"
IsDeleteById(p) == args[p].entry = "deleteByIdAsync"

\* C22: whatever a concurrent deleteByIdAsync on the same id does, an
\* updateByIdAsync call that returns returns a present Optional, and it has
\* invoked sendEvent only if its store update modified an existing row.
C22_UpdateByIdUnderDelete ==
    \A p \in Procs, q \in Procs :
        (p # q /\ IsUpdateById(p) /\ IsDeleteById(q) /\ args[p].criteria = args[q].criteria) =>
            /\ pc[p] = "done" => ret[p].opt.hasValue
            /\ notes[p] # << >> => Matching(loc[p].before, args[p].criteria) # {}

\* C23: of concurrent deleteByIdAsync calls on one existing id, at most one
\* returns a present Optional, and the deletion is notified once in total.
C23_DeleteByIdOnce ==
    \A p \in Procs, q \in Procs :
        (p # q /\ IsDeleteById(p) /\ IsDeleteById(q) /\ args[p].criteria = args[q].criteria) =>
            /\ ~(pc[p] = "done" /\ ret[p].opt.hasValue /\ pc[q] = "done" /\ ret[q].opt.hasValue)
            /\ Len(notes[p]) + Len(notes[q]) <= 1
            /\ (pc[p] = "done" /\ ret[p].opt.hasValue /\ pc[q] \in {"done", "failed"}) =>
                  Len(notes[p]) + Len(notes[q]) = 1

\* The rows the update statement of caller p modified, as it left them.
Modified(p) ==
    {Raw(Patched(Row(i, loc[p].before[i]), args[p].patch)) :
        i \in Matching(loc[p].before, CondOf(p))}
Elems(seq) == {seq[k] : k \in 1..Len(seq)}
NoteVals(p) == {notes[p][k].val : k \in 1..Len(notes[p])}

\* C24: updateEntriesAsync, run alone, returns exactly the rows its update
\* modified, in their post-update state, and starts sendEvent once for each
\* of them, also when the patch changes a field the condition tests; once the
\* update has been applied the call returns.
C24_UpdateEntriesReturnsModified ==
    \A p \in Procs :
        /\ (args[p].op = "updateEntriesAsync" /\ pc[p] = "done") =>
              /\ Elems(ret[p].opt.list) = Modified(p)
              /\ Len(ret[p].opt.list) = Cardinality(Modified(p))
              /\ args[p].notify =>
                    /\ NoteVals(p) = Modified(p)
                    /\ Len(notes[p]) = Cardinality(Modified(p))
        /\ (args[p].op = "updateEntriesAsync" /\ pc[p] = "failed") =>
              ~(trace[p] # << >> /\ trace[p][1].ok)

\* The stored record a present result of caller p stands for matches c.
PresentFor(p, c) ==
    \E i \in Matching(db[NamedSource(p)], c) :
        ret[p].opt.val = Project(args[p].proj, Row(i, db[NamedSource(p)][i]))

\* C25: findOneAsync and findOneAlternativeConditionAsync return a present
\* value only for a stored record that matches the condition, or the
\* alternative condition, the caller gave; with the alternative omitted and a
\* first condition that matches nothing the result is absent.
C25_PresentOnlyForMatch ==
    \A p \in Procs :
        /\ (args[p].op = "findOneAsync" /\ pc[p] = "done" /\ ret[p].opt.hasValue) =>
              PresentFor(p, args[p].cond)
        /\ (IsFoa(p) /\ pc[p] = "done" /\ ret[p].opt.hasValue) =>
              \/ PresentFor(p, args[p].cond)
              \/ args[p].alt # NoCondition /\ PresentFor(p, args[p].alt)
        /\ (IsFoa(p) /\ pc[p] = "done" /\ args[p].alt = NoCondition
              /\ Matching(db[NamedSource(p)], args[p].cond) = {}) =>
              ret[p].opt = None

\* The entries of a createAsync batch whose createFromModel does not throw.
Projected(p) ==
    {k \in 1..Len(args[p].rows) : ~ProjectThrows(args[p].proj, args[p].rows[k])}

\* C26: when createFromModel or sendEvent fails for one saved record,
\* createAsync fails with that error, every record of the batch stays
\* persisted, and sendEvent has been invoked for every other saved record.
C26_CreateManyPartialFailure ==
    \A p \in Procs :
        (args[p].op = "createAsync" /\ pc[p] = "failed"
           /\ trace[p] # << >> /\ trace[p][1].ok) =>
            /\ ret[p].err \in {"projection", "sendEvent"}
            /\ ret[p].err = "projection" => Projected(p) # 1..Len(args[p].rows)
            /\ ret[p].err = "sendEvent" => SomeRaised(notes[p])
            /\ db[NamedSource(p)] = StoreSave(loc[p].before, args[p].rows)
            /\ \A k \in 1..Len(args[p].rows) :
                  db[NamedSource(p)][args[p].rows[k].id] # NoRow
            /\ args[p].notify =>
                  /\ Len(notes[p]) = Cardinality(Projected(p))
                  /\ Count(trace[p], "notify") = Cardinality(Projected(p))
                  /\ \A k \in Projected(p) :
                        Project(args[p].proj, args[p].rows[k]) \in NoteVals(p)

\* The first entry cannot be projected, and sendEvent was still invoked for
\* the second.
C26_Witness ==
    \E p \in Procs :
        /\ args[p].op = "createAsync" /\ pc[p] = "failed" /\ args[p].notify
        /\ ret[p].err = "projection"
        /\ Len(args[p].rows) = 2 /\ Projected(p) = {2}
        /\ Len(notes[p]) = 1
        /\ args[p].rows[1].id # args[p].rows[2].id
====
